---- MODULE Spec2Model ----
(***************************************************************************)
(* A model of pycallnumber/utils.py: the generic comparison framework      *)
(* (ComparableObjectMixin, Infinity) and the memoize decorator.            *)
(*                                                                         *)
(* The source is Python 2 (function.func_name, inspect.getargspec, the     *)
(* implicit relative import of exceptions), so keys are compared the way   *)
(* Python 2 compares them: byte-wise lexicographic order on str, and None  *)
(* smaller than every str.                                                 *)
(*                                                                         *)
(* A Python str is a sequence of one-character strings; Ord gives the      *)
(* character's code.                                                       *)
(***************************************************************************)
EXTENDS Integers, Sequences, FiniteSets, TLC

VARIABLES
    heap,      \* the Infinity objects built so far: heap[i].sign
    origin,    \* history: origin[i] = 0 for Infinity(), j for -heap[j]
    cmp,       \* the comparison being evaluated and its outcome
    cache,     \* f._cache of the undecorated module-level function f
    wrapped,   \* F._cache of the decorated F = memoize(f); whether memoize(F) ran
    objcache,  \* per object, its _cache attribute (or none set yet)
    stack,     \* the wrapper calls whose function body is running
    executed,  \* history: per owner, function and bound arguments, body runs
    last,      \* the last outermost call of a wrapper and what it returned
    ncalls     \* outermost calls of a wrapper made so far

cmpvars == <<heap, origin, cmp>>
memovars == <<cache, wrapped, objcache, stack, executed, last, ncalls>>
vars == <<heap, origin, cmp, cache, wrapped, objcache, stack, executed, last, ncalls>>

\* ----------------------------------------------------------------- bounds

MaxObjs == 3
MaxLen == 2
MaxCalls == 2

\* ---------------------------------------------------------------- strings

Ord(c) ==
    CASE c = " " -> 32 [] c = "-" -> 45
      [] c = "0" -> 48 [] c = "1" -> 49 [] c = "2" -> 50 [] c = "3" -> 51
      [] c = "4" -> 52 [] c = "5" -> 53 [] c = "6" -> 54 [] c = "7" -> 55
      [] c = "8" -> 56 [] c = "9" -> 57
      [] c = "<" -> 60 [] c = ">" -> 62
      [] c = "I" -> 73 [] c = "N" -> 78 [] c = "T" -> 84 [] c = "_" -> 95
      [] c = "a" -> 97 [] c = "b" -> 98 [] c = "c" -> 99 [] c = "e" -> 101
      [] c = "f" -> 102 [] c = "g" -> 103 [] c = "i" -> 105 [] c = "n" -> 110
      [] c = "o" -> 111 [] c = "p" -> 112 [] c = "r" -> 114 [] c = "s" -> 115 [] c = "t" -> 116
      [] c = "y" -> 121

\* The three-way order of two str values: -1, 0 or 1.
RECURSIVE StrCmp(_, _)
StrCmp(s, t) ==
    IF s = <<>> /\ t = <<>> THEN 0
    ELSE IF s = <<>> THEN -1
    ELSE IF t = <<>> THEN 1
    ELSE IF Ord(Head(s)) < Ord(Head(t)) THEN -1
    ELSE IF Ord(Head(s)) > Ord(Head(t)) THEN 1
    ELSE StrCmp(Tail(s), Tail(t))

Digit(d) == <<"0", "1", "2", "3", "4", "5", "6", "7", "8", "9">>[d + 1]

\* str(n) of a non-negative int.
RECURSIVE NatStr(_)
NatStr(n) == IF n < 10 THEN <<Digit(n)>> ELSE NatStr(n \div 10) \o <<Digit(n % 10)>>

\* str(n) of an int.
IntStr(n) == IF n < 0 THEN <<"-">> \o NatStr(-n) ELSE NatStr(n)

\* '_'.join(strs)
RECURSIVE Join(_)
Join(strs) ==
    IF strs = <<>> THEN <<>>
    ELSE IF Len(strs) = 1 THEN strs[1]
    ELSE strs[1] \o <<"_">> \o Join(Tail(strs))

TextChars == {" ", "a", "b"}

RECURSIVE StrsOfLen(_)
StrsOfLen(n) ==
    IF n = 0 THEN {<<>>}
    ELSE {<<c>> \o s : c \in TextChars, s \in StrsOfLen(n - 1)}

Texts == UNION {StrsOfLen(n) : n \in 0..MaxLen}

Ints == {-3, 0, 12}

\* ----------------------------------------------------------------- values

\* A sentinel (by reference into heap), an instance of a class T that mixes
\* in ComparableObjectMixin, keeps the default cmp_key and prints as its
\* text, a plain str and a plain int.
InfRef(i) == [kind |-> "Infinity", text |-> <<>>, num |-> 0, ref |-> i]
TObj(s) == [kind |-> "T", text |-> s, num |-> 0, ref |-> 0]
PlainStr(s) == [kind |-> "str", text |-> s, num |-> 0, ref |-> 0]
PlainInt(n) == [kind |-> "int", text |-> <<>>, num |-> n, ref |-> 0]

Operands ==
    {InfRef(i) : i \in DOMAIN heap} \cup {TObj(s) : s \in Texts}
        \cup {PlainStr(s) : s \in Texts} \cup {PlainInt(n) : n \in Ints}

Ops == {"eq", "ne", "gt", "ge", "lt", "le"}

SignChars(sign) == IF sign = "pos" THEN <<"p", "o", "s">> ELSE <<"n", "e", "g">>

\* Mutant: the label leaves the sign out.
Infinity_repr_NoSign(self) ==
    <<"<", "i", "n", "f", "i", "n", "i", "t", "y", ">">>

\* Mutant: the label names the object, as the default repr of an object does.
Infinity_repr_Address(self) ==
    <<"<">> \o SignChars(heap[self.ref].sign)
        \o <<" ", "i", "n", "f", "i", "n", "i", "t", "y", " ">> \o NatStr(self.ref)
        \o <<">">>

\* '<{} infinity>'.format(self.sign)
Infinity_repr(self) ==
    <<"<">> \o SignChars(heap[self.ref].sign)
        \o <<" ", "i", "n", "f", "i", "n", "i", "t", "y", ">">>

\* str(v)
Str(v) ==
    CASE v.kind = "Infinity" -> Infinity_repr(v)
      [] v.kind = "int" -> IntStr(v.num)
      [] OTHER -> v.text

\* Whether getattr(v, 'cmp_key') finds the method.
HasCmpKey(v) == v.kind \in {"Infinity", "T"}

\* ------------------------------------------------------- comparison keys

\* What a key computation gives: a str, None, or a raised AttributeError.
StrKey(s) == [tag |-> "str", s |-> s]
NoneKey == [tag |-> "None", s |-> <<>>]
AttributeError == [tag |-> "AttributeError", s |-> <<>>]

Raised(k) == k.tag = "AttributeError"

\* Mutant: the key of the partner is returned as it is, with no suffix.
FormatSpace_NoSuffix(okey) == okey

\* '{} '.format(okey)
FormatSpace(okey) ==
    CASE Raised(okey) -> okey
      [] okey.tag = "None" -> StrKey(<<"N", "o", "n", "e", " ">>)
      [] OTHER -> StrKey(okey.s \o <<" ">>)

RECURSIVE cmp_key(_, _, _)

\* Mutant: the key is the name of the type, not the text of the value.
ComparableObjectMixin_cmp_key_TypeName(self, other, op) == StrKey(<<"T">>)

ComparableObjectMixin_cmp_key(self, other, op) == StrKey(Str(self))

\* Mutant: the mixin falls back to str(other), as Infinity does.
ComparableObjectMixin_get_other_StrFallback(self, other, op) ==
    IF HasCmpKey(other) THEN cmp_key(other, self, op) ELSE StrKey(Str(other))

ComparableObjectMixin_get_other(self, other, op) ==
    IF HasCmpKey(other) THEN cmp_key(other, self, op) ELSE AttributeError

\* Mutant: Infinity does not override _get_other.
Infinity_get_other_NoFallback(self, other, op) ==
    IF HasCmpKey(other) THEN cmp_key(other, self, op) ELSE AttributeError

Infinity_get_other(self, other, op) ==
    IF HasCmpKey(other) THEN cmp_key(other, self, op) ELSE StrKey(Str(other))

\* Mutant: the negative sentinel's key is the empty str, not None.
Infinity_cmp_key_EmptyNeg(self, other, op) ==
    IF other.kind = "Infinity" THEN StrKey(Str(self))
    ELSE IF heap[self.ref].sign = "pos"
    THEN FormatSpace(Infinity_get_other(self, other, op))
    ELSE StrKey(<<>>)

Infinity_cmp_key(self, other, op) ==
    IF other.kind = "Infinity" THEN StrKey(Str(self))
    ELSE IF heap[self.ref].sign = "pos"
    THEN FormatSpace(Infinity_get_other(self, other, op))
    ELSE NoneKey

cmp_key(self, other, op) ==
    IF self.kind = "Infinity" THEN Infinity_cmp_key(self, other, op)
    ELSE ComparableObjectMixin_cmp_key(self, other, op)

get_other(self, other, op) ==
    IF self.kind = "Infinity" THEN Infinity_get_other(self, other, op)
    ELSE ComparableObjectMixin_get_other(self, other, op)

\* The three-way order of two keys: None is below every str.
KeyCmp(k1, k2) ==
    CASE k1.tag = "None" /\ k2.tag = "None" -> 0
      [] k1.tag = "None" -> -1
      [] k2.tag = "None" -> 1
      [] OTHER -> StrCmp(k1.s, k2.s)

\* The lambdas of __eq__ .. __le__, on a three-way order c.
ApplyOp(op, c) ==
    CASE op = "eq" -> c = 0
      [] op = "ne" -> c # 0
      [] op = "gt" -> c > 0
      [] op = "ge" -> c >= 0
      [] op = "lt" -> c < 0
      [] op = "le" -> c <= 0

PyBool(b) == IF b THEN "True" ELSE "False"

\* self.__op__(other): "True", "False" or "NotImplemented".
compare(self, other, op) ==
    LET k1 == cmp_key(self, other, op)
        k2 == get_other(self, other, op)
    IN  IF Raised(k1) \/ Raised(k2) THEN "NotImplemented"
        ELSE PyBool(ApplyOp(op, KeyCmp(k1, k2)))

\* ------------------------------------------- the interpreter's a <op> b

Swapped(op) ==
    CASE op = "lt" -> "gt" [] op = "gt" -> "lt"
      [] op = "le" -> "ge" [] op = "ge" -> "le"
      [] OTHER -> op

\* The name by which the default order ranks a type: numbers first.
TypeName(v) ==
    CASE v.kind = "int" -> <<>>
      [] v.kind = "str" -> <<"s", "t", "r">>
      [] v.kind = "T" -> <<"T">>
      [] OTHER -> <<"I", "n", "f", "i", "n", "i", "t", "y">>

\* Both methods gave NotImplemented: the default order of two objects of
\* different types.
DefaultCompare(a, op, b) == PyBool(ApplyOp(op, StrCmp(TypeName(a), TypeName(b))))

\* a.__op__(b) when a's type mixes in ComparableObjectMixin; a plain str
\* answers NotImplemented to a partner that is no str, a plain int has no
\* rich comparison.
Method(a, op, b) == IF HasCmpKey(a) THEN compare(a, b, op) ELSE "NotImplemented"

RichCompare(a, op, b) ==
    LET first == Method(a, op, b)
        second == Method(b, Swapped(op), a)
    IN  IF first # "NotImplemented" THEN first
        ELSE IF second # "NotImplemented" THEN second
        ELSE DefaultCompare(a, op, b)

\* --------------------------------------------------------------- actions

NoCmp == [a |-> PlainInt(0), op |-> "none", b |-> PlainInt(0), ret |-> "none", res |-> "none"]

Opposite(sign) == IF sign = "pos" THEN "neg" ELSE "pos"

\* Infinity()
Infinity_init ==
    /\ Len(heap) < MaxObjs
    /\ heap' = Append(heap, [sign |-> "pos"])
    /\ origin' = Append(origin, 0)
    /\ UNCHANGED <<cmp, memovars>>

\* Mutant: negation flips the sign of self and returns self.
Infinity_neg_InPlace(i) ==
    /\ Len(heap) < MaxObjs
    /\ heap' = [heap EXCEPT ![i].sign = Opposite(@)]
    /\ UNCHANGED <<origin, cmp, memovars>>

\* -heap[i]
Infinity_neg(i) ==
    /\ Len(heap) < MaxObjs
    /\ heap' = Append(heap, [sign |-> Opposite(heap[i].sign)])
    /\ origin' = Append(origin, i)
    /\ UNCHANGED <<cmp, memovars>>

\* a <op> b, with at least one operand of a type that mixes in
\* ComparableObjectMixin; ret is a.__op__(b), res what the operator gives.
\* The code is synchronous: one comparison is evaluated at a time, and it
\* changes no object, so the next one starts from the same heap.
Compare(a, op, b) ==
    /\ cmp.op = "none"
    /\ HasCmpKey(a) \/ HasCmpKey(b)
    /\ cmp' = [a |-> a, op |-> op, b |-> b,
               ret |-> Method(a, op, b), res |-> RichCompare(a, op, b)]
    /\ UNCHANGED <<heap, origin, memovars>>

\* The caller is done with the outcome of the comparison.
Discard ==
    /\ cmp.op # "none"
    /\ cmp' = NoCmp
    /\ UNCHANGED <<heap, origin, memovars>>

InitCmp ==
    /\ heap = <<>>
    /\ origin = <<>>
    /\ cmp = NoCmp

\* --------------------------------------------------------------- memoize

\* The functions given to memoize: a module-level function, the wrapper its
\* decoration returned, and two methods of a class K,
\*     def f(a, b='c'): return (a, b)
\*     F = memoize(f)
\*     class K(object):
\*         @memoize
\*         def m(self, a, b='c'): return (a, b)
\*         @memoize
\*         def outer(self, a): return self.m(a)
\* "f", "m" and "outer" name the undecorated functions, the `function` of
\* memoize and of its closures; "F" names the wrapper memoize(f) returned,
\* which is what `@memoize def f` binds the name f to.
Functions == {"f", "F", "m", "outer"}
Objs == {1, 2}

\* inspect.getargspec(function)[0]; the wrapper F is def wrapper(*args,
\* **kwargs), with no named parameter.
getargspec(function) ==
    CASE function = "f" -> <<"a", "b">>
      [] function = "F" -> <<>>
      [] function = "m" -> <<"self", "a", "b">>
      [] function = "outer" -> <<"self", "a">>

function_is_method(function) ==
    Len(getargspec(function)) > 0 /\ getargspec(function)[1] \in {"self", "cls"}

argnames(function) ==
    IF function_is_method(function) THEN Tail(getargspec(function))
    ELSE getargspec(function)

\* function.func_name; functools.wraps gave F the name of f.
func_name(function) ==
    CASE function = "f" -> <<"f">>
      [] function = "F" -> <<"f">>
      [] function = "m" -> <<"m">>
      [] function = "outer" -> <<"o", "u", "t", "e", "r">>

DefaultB == PlainStr(<<"c">>)

\* A keyword that the call does not pass, a parameter the function lacks.
Absent == [kind |-> "absent", text |-> <<>>, num |-> 0, ref |-> 0]

\* An instance of K.
ObjRef(k) == [kind |-> "obj", text |-> <<>>, num |-> 0, ref |-> k]

NoKwargs == [a |-> Absent, b |-> Absent]

\* The calls wrapper(*args, **kwargs) made from outside: of f, and of the
\* bound methods k.m and k.outer, which pass k as args[0].
AVals == {PlainStr(<<"a">>), PlainStr(<<"a", "_", "b">>), PlainInt(1), PlainStr(<<"1">>)}
BVals == {PlainStr(<<"c">>), PlainStr(<<"b", "_", "c">>)}
MVals == {PlainStr(<<"a">>), PlainInt(1)}

ArgLists == {<<>>} \cup {<<a>> : a \in AVals} \cup {<<a, b>> : a \in AVals, b \in BVals}
KwargDicts == [a : AVals \cup {Absent}, b : BVals \cup {Absent}]

MethodArgLists ==
    {<<>>} \cup {<<a>> : a \in MVals} \cup {<<a, b>> : a \in MVals, b \in BVals}
MethodKwargDicts == [a : MVals \cup {Absent}, b : BVals \cup {Absent}]

\* inspect.getcallargs(function, *args, **kwargs): the bound arguments, or
\* a TypeError (too many positional arguments, an argument given twice, a
\* keyword the function does not take, no value for a).  F takes *args and
\* **kwargs: every call binds, and none of its parameters is named a or b.
getcallargs(function, args, kwargs) ==
    LET names == getargspec(function)
        Pos(n) == CHOOSE i \in 0..Len(names) :
                      IF \E j \in DOMAIN names : names[j] = n
                      THEN i # 0 /\ names[i] = n ELSE i = 0
        Given(n) == Pos(n) # 0 /\ Pos(n) <= Len(args)
        twice == \E n \in {"a", "b"} : Given(n) /\ kwargs[n] # Absent
        unexpected == \E n \in {"a", "b"} : Pos(n) = 0 /\ kwargs[n] # Absent
        noA == ~Given("a") /\ kwargs.a = Absent
        Bound(n, default) ==
            IF Pos(n) = 0 THEN Absent
            ELSE IF Given(n) THEN args[Pos(n)]
            ELSE IF kwargs[n] # Absent THEN kwargs[n] ELSE default
    IN  IF function = "F"
        THEN [ok |-> TRUE, a |-> Absent, b |-> Absent]
        ELSE IF Len(args) > Len(names) \/ twice \/ unexpected \/ noA
        THEN [ok |-> FALSE, a |-> Absent, b |-> Absent]
        ELSE [ok |-> TRUE, a |-> Bound("a", Absent), b |-> Bound("b", DefaultB)]

generate_key(function, base, args, kwargs) ==
    LET argsmap == getcallargs(function, args, kwargs)
        names == argnames(function)
        argvals_as_strings == [i \in DOMAIN names |-> Str(argsmap[names[i]])]
        argstr == IF names # <<>> THEN <<"_">> \o Join(argvals_as_strings) ELSE <<>>
    IN  base \o argstr

\* obj of wrapper: args[0] for a method, the function itself otherwise
\* (0 for f, -1 for F).
Owner(function, args) ==
    IF function_is_method(function) THEN args[1].ref
    ELSE IF function = "f" THEN 0 ELSE -1

\* The _cache attribute of an owner: whether it is set, and the dict.
NoAttr == [set |-> FALSE, d |-> <<>>]
Attr(d) == [set |-> TRUE, d |-> d]

\* F._cache: functools.wraps copied f.__dict__ into F.__dict__, so it is the
\* very dict of f._cache (alias) until one of the two names is bound to a
\* new dict.
WrappedCache == IF wrapped.alias THEN cache ELSE wrapped.d

OwnerAttr(owner) ==
    CASE owner = 0 -> Attr(cache)
      [] owner = -1 -> Attr(WrappedCache)
      [] OTHER -> objcache[owner]

\* cache[key] = value
Put(d, key, value) ==
    [k \in DOMAIN d \cup {key} |-> IF k = key THEN value ELSE d[k]]

\* One more run of function's body for owner and the bound arguments; the
\* history counts the bodies of f, m and outer, not a run of the wrapper F.
Ran(function, owner, m) ==
    LET e == [function |-> function, owner |-> owner, a |-> m.a, b |-> m.b]
    IN  IF function = "F" THEN executed
        ELSE [x \in DOMAIN executed \cup {e} |->
                IF x = e THEN (IF e \in DOMAIN executed THEN executed[e] + 1 ELSE 1)
                ELSE executed[x]]

NoValue == <<Absent, Absent>>

NoCall ==
    [function |-> "none", args |-> <<>>, kwargs |-> NoKwargs, status |-> "none",
     key |-> <<>>, ran |-> FALSE, ret |-> NoValue]

\* The call that a frame of the stack is running, as last reports it.
CallOf(fr) ==
    [NoCall EXCEPT !.function = fr.function, !.args = fr.args, !.kwargs = fr.kwargs]

\* wrapper(*args, **kwargs) of memoize(function), up to the call of the
\* function body: generate_key raises the TypeError of getcallargs, which
\* ends every running wrapper; a cached key returns obj._cache[key] at once;
\* otherwise the body starts, with cache bound to the dict of obj._cache or,
\* when obj has no _cache yet, to a new dict that no object refers to
\* (fresh).  A call from outside (nested = FALSE) reports to last, a call
\* made by a body to its frame.
wrapper(function, args, kwargs, nested) ==
    LET m == getcallargs(function, args, kwargs)
        owner == Owner(function, args)
        attr == OwnerAttr(owner)
        key == generate_key(function, func_name(function), args, kwargs)
        call == [NoCall EXCEPT !.function = function, !.args = args, !.kwargs = kwargs]
    IN  IF ~m.ok
        THEN /\ last' = [(IF nested THEN CallOf(stack[1]) ELSE call)
                            EXCEPT !.status = "TypeError"]
             /\ stack' = <<>>
             /\ UNCHANGED <<cache, wrapped, objcache, executed>>
        ELSE IF key \in DOMAIN attr.d
        THEN /\ IF nested
                THEN /\ stack' = [stack EXCEPT ![Len(stack)].pc = "called",
                                               ![Len(stack)].val = attr.d[key]]
                     /\ UNCHANGED last
                ELSE /\ last' = [call EXCEPT !.status = "returned", !.key = key,
                                             !.ret = attr.d[key]]
                     /\ UNCHANGED stack
             /\ UNCHANGED <<cache, wrapped, objcache, executed>>
        ELSE /\ stack' = Append(stack,
                   [function |-> function, args |-> args, kwargs |-> kwargs,
                    owner |-> owner, key |-> key, fresh |-> ~attr.set,
                    pc |-> "body", val |-> NoValue])
             /\ executed' = Ran(function, owner, m)
             /\ UNCHANGED <<cache, wrapped, objcache, last>>

\* A call, from outside any function body, of the wrapper that
\* memoize(function) returned; the one of memoize(F) exists once memoize(F)
\* has run.
Call(function, args, kwargs) ==
    /\ stack = <<>>
    /\ ncalls < MaxCalls
    /\ function = "F" => wrapped.again
    /\ ncalls' = ncalls + 1
    /\ wrapper(function, args, kwargs, FALSE)
    /\ UNCHANGED cmpvars

\* function(*args, **kwargs) where the function calls a wrapper: the body of
\* outer calls self.m(a); F is itself the wrapper of f.
BodyCall ==
    /\ stack # <<>>
    /\ LET fr == stack[Len(stack)]
       IN  /\ fr.function \in {"outer", "F"} /\ fr.pc = "body"
           /\ IF fr.function = "outer"
              THEN wrapper("m", <<fr.args[1], getcallargs(fr.function, fr.args, fr.kwargs).a>>,
                           NoKwargs, TRUE)
              ELSE wrapper("f", fr.args, fr.kwargs, TRUE)
    /\ UNCHANGED <<ncalls, cmpvars>>

\* The body returns, and wrapper finishes: cache[key] = value,
\* obj._cache = cache, return obj._cache[key].
Return ==
    /\ stack # <<>>
    /\ LET fr == stack[Len(stack)]
           m == getcallargs(fr.function, fr.args, fr.kwargs)
           value == IF fr.function \in {"outer", "F"} THEN fr.val ELSE <<m.a, m.b>>
           d == Put(IF fr.fresh THEN <<>> ELSE OwnerAttr(fr.owner).d, fr.key, value)
           rest == SubSeq(stack, 1, Len(stack) - 1)
       IN  /\ fr.function \in {"outer", "F"} => fr.pc = "called"
           /\ CASE fr.owner = 0 -> cache' = d /\ UNCHANGED <<wrapped, objcache>>
                [] fr.owner = -1 ->
                      /\ IF wrapped.alias
                         THEN cache' = d /\ UNCHANGED wrapped
                         ELSE wrapped' = [wrapped EXCEPT !.d = d] /\ UNCHANGED cache
                      /\ UNCHANGED objcache
                [] OTHER ->
                      /\ objcache' = [objcache EXCEPT ![fr.owner] = Attr(d)]
                      /\ UNCHANGED <<cache, wrapped>>
           /\ IF rest = <<>>
              THEN /\ stack' = rest
                   /\ last' = [function |-> fr.function, args |-> fr.args,
                               kwargs |-> fr.kwargs, status |-> "returned",
                               key |-> fr.key, ran |-> TRUE, ret |-> d[fr.key]]
              ELSE /\ stack' = [rest EXCEPT ![Len(rest)].pc = "called",
                                            ![Len(rest)].val = d[fr.key]]
                   /\ UNCHANGED last
    /\ UNCHANGED <<executed, ncalls, cmpvars>>

\* memoize(function), applied once more.  A method gets no attribute.
\* memoize(f), on the undecorated f, binds f._cache to a new dict, which the
\* wrapper F reads from then on; F._cache keeps the dict it had.
\* memoize(F), on the decorated function, binds F._cache to a new dict, and
\* leaves f._cache, the one F reads, as it was; the wrapper it returns
\* caches in F._cache under the one key 'f'.
memoize(function) ==
    /\ stack = <<>>
    /\ CASE function = "f" ->
              /\ cache' = <<>>
              /\ wrapped' = [wrapped EXCEPT !.alias = FALSE, !.d = WrappedCache]
        [] function = "F" ->
              /\ wrapped' = [alias |-> FALSE, d |-> <<>>, again |-> TRUE]
              /\ UNCHANGED cache
        [] OTHER -> UNCHANGED <<cache, wrapped>>
    /\ UNCHANGED <<objcache, stack, executed, last, ncalls, cmpvars>>

\* f, m and outer decorated once, F = memoize(f) sharing the dict of
\* f._cache; no instance of K has a _cache.
InitMemo ==
    /\ cache = <<>>
    /\ wrapped = [alias |-> TRUE, d |-> <<>>, again |-> FALSE]
    /\ objcache = [k \in Objs |-> NoAttr]
    /\ stack = <<>>
    /\ executed = <<>>
    /\ last = NoCall
    /\ ncalls = 0

\* -------------------------------------------------------- specifications

Init == InitCmp /\ InitMemo

Next ==
    \/ Infinity_init
    \/ \E i \in DOMAIN heap : Infinity_neg(i)
    \/ /\ cmp.op = "none"
       /\ \E a \in Operands, b \in Operands, op \in Ops : Compare(a, op, b)
    \/ Discard

Spec == Init /\ [][Next]_vars

\* The module-level function f: calls of F = memoize(f) and of the wrapper
\* memoize(F) returned, and a second decoration of f and of F.
NextMemo ==
    \/ /\ stack = <<>>
       /\ \E function \in {"f", "F"}, args \in ArgLists, kwargs \in KwargDicts :
             Call(function, args, kwargs)
    \/ BodyCall
    \/ Return
    \/ \E function \in {"f", "F"} : memoize(function)

SpecMemo == Init /\ [][NextMemo]_vars

\* The methods m and outer of the instances of K.
NextMethods ==
    \/ /\ stack = <<>>
       /\ \E function \in {"m", "outer"}, k \in Objs,
             args \in MethodArgLists, kwargs \in MethodKwargDicts :
                Call(function, <<ObjRef(k)>> \o args, kwargs)
    \/ BodyCall
    \/ Return

SpecMethods == Init /\ [][NextMethods]_vars

\* ---------------------------------------------------------------- claims

IsInf(v) == v.kind = "Infinity"
IsPos(v) == IsInf(v) /\ heap[v.ref].sign = "pos"
IsNeg(v) == IsInf(v) /\ heap[v.ref].sign = "neg"
Ordinary(v) == v.kind \in {"T", "str", "int"}
NoCmpKey(v) == v.kind \in {"str", "int"}
Compared == cmp.op # "none"

\* C1: a positive Infinity is greater than every ordinary value v:
\* Infinity() > v and v < Infinity() are True, and the sentinel's key against
\* v is v's key followed by one space.
C1_PosAboveOrdinary ==
    Compared =>
        /\ (IsPos(cmp.a) /\ Ordinary(cmp.b)) =>
              /\ cmp_key(cmp.a, cmp.b, cmp.op) = StrKey(Str(cmp.b) \o <<" ">>)
              /\ cmp.op = "gt" => (cmp.ret = "True" /\ cmp.res = "True")
        /\ (Ordinary(cmp.a) /\ IsPos(cmp.b) /\ cmp.op = "lt") => cmp.res = "True"

C1_Witness ==
    /\ cmp.op = "lt" /\ cmp.a = PlainStr(<<>>) /\ IsPos(cmp.b)
    /\ cmp.res = "True"

\* C2: a negative Infinity is less than every ordinary value v:
\* -Infinity() < v and v > -Infinity() are True, and the sentinel's key
\* against v is None.
C2_NegBelowOrdinary ==
    Compared =>
        /\ (IsNeg(cmp.a) /\ Ordinary(cmp.b)) =>
              /\ cmp_key(cmp.a, cmp.b, cmp.op) = NoneKey
              /\ cmp.op = "lt" => (cmp.ret = "True" /\ cmp.res = "True")
        /\ (Ordinary(cmp.a) /\ IsNeg(cmp.b) /\ cmp.op = "gt") => cmp.res = "True"

C2_Witness ==
    /\ cmp.op = "gt" /\ cmp.a = TObj(<<>>) /\ IsNeg(cmp.b)
    /\ cmp.res = "True"

\* C3: for a positive sentinel p and a negative sentinel n, p > n and n < p
\* are True, and p < n, n > p and p == n are False.
C3_PosAboveNeg ==
    Compared =>
        /\ (IsPos(cmp.a) /\ IsNeg(cmp.b)) =>
              /\ cmp.op = "gt" => cmp.res = "True"
              /\ cmp.op \in {"lt", "eq"} => cmp.res = "False"
        /\ (IsNeg(cmp.a) /\ IsPos(cmp.b)) =>
              /\ cmp.op = "lt" => cmp.res = "True"
              /\ cmp.op \in {"gt", "eq"} => cmp.res = "False"

C3_Witness ==
    /\ cmp.op = "gt" /\ IsPos(cmp.a) /\ IsNeg(cmp.b)
    /\ cmp.res = "True"

\* The place of a value in the intended order: negative sentinels, then the
\* ordinary values, then positive sentinels.
Rank(v) == IF IsPos(v) THEN 1 ELSE IF IsNeg(v) THEN -1 ELSE 0

Negated(v) == IsInf(v) /\ origin[v.ref] # 0

C4_State ==
    /\ \A i \in DOMAIN heap :
          heap[i].sign = IF origin[i] = 0 THEN "pos"
                         ELSE Opposite(heap[origin[i]].sign)
    /\ (Compared /\ (Negated(cmp.a) \/ Negated(cmp.b))) =>
          cmp.res = PyBool(ApplyOp(cmp.op, Rank(cmp.a) - Rank(cmp.b)))

C4_Step ==
    /\ \A i \in DOMAIN heap : i \in DOMAIN heap' /\ heap'[i] = heap[i]
    /\ \A i \in DOMAIN heap' \ DOMAIN heap :
          origin'[i] # 0 => heap'[i].sign = Opposite(heap[origin'[i]].sign)

\* C4: negation returns a new sentinel of the opposite sign and leaves its
\* operand's sign as it was, whatever negations follow; a sentinel got by
\* negation compares, under all six operators and against every partner, as
\* its sign alone says.
C4_NegationIsPure == []C4_State /\ [][C4_Step]_vars

C4_Witness ==
    /\ cmp.op = "eq" /\ IsInf(cmp.a) /\ IsInf(cmp.b)
    /\ origin[cmp.b.ref] = 0
    /\ origin[cmp.a.ref] # 0 /\ origin[origin[cmp.a.ref]] = cmp.b.ref
    /\ cmp.res = "True"

\* C5: two distinct sentinels of the same sign are equal: == <= >= are
\* True and != < > are False.
C5_SameSignEqual ==
    (/\ Compared /\ IsInf(cmp.a) /\ IsInf(cmp.b) /\ cmp.a.ref # cmp.b.ref
     /\ heap[cmp.a.ref].sign = heap[cmp.b.ref].sign) =>
        /\ cmp.op \in {"eq", "le", "ge"} => (cmp.ret = "True" /\ cmp.res = "True")
        /\ cmp.op \in {"ne", "lt", "gt"} => (cmp.ret = "False" /\ cmp.res = "False")

C5_Witness ==
    /\ cmp.op = "ne" /\ IsNeg(cmp.a) /\ IsNeg(cmp.b) /\ cmp.a.ref # cmp.b.ref
    /\ cmp.res = "False"

\* C6: each of the six operator methods of a value that keeps the mixin's
\* _get_other, given a partner with no cmp_key, returns NotImplemented and
\* raises nothing; == then reports not equal.
C6_IncompatibleNotImplemented ==
    (Compared /\ cmp.a.kind = "T" /\ NoCmpKey(cmp.b)) =>
        /\ cmp.ret = "NotImplemented"
        /\ cmp.op = "eq" => cmp.res = "False"
        /\ cmp.op = "ne" => cmp.res = "True"

C6_Witness ==
    /\ cmp.op = "lt" /\ cmp.a = TObj(<<"a">>) /\ cmp.b = PlainInt(12)
    /\ cmp.ret = "NotImplemented"

\* op(a.cmp_key(b, op), str(b))
AgainstStr == PyBool(ApplyOp(cmp.op, KeyCmp(cmp_key(cmp.a, cmp.b, cmp.op), StrKey(Str(cmp.b)))))

\* C7 as stated: in a._compare(b, op), when b has no cmp_key, b's key is
\* str(b) and the result is op(a.cmp_key(b, op), str(b)).
C7_Original ==
    (Compared /\ HasCmpKey(cmp.a) /\ NoCmpKey(cmp.b)) => cmp.ret = AgainstStr

\* C7 as amended: when b has no cmp_key, the result is
\* op(a.cmp_key(b, op), str(b)) if a is an Infinity, whose _get_other falls
\* back to str(b), and NotImplemented if a keeps the mixin's _get_other.
C7_StrFallbackOnlyForInfinity ==
    (Compared /\ NoCmpKey(cmp.b)) =>
        /\ IsInf(cmp.a) => (cmp.ret = AgainstStr /\ cmp.ret # "NotImplemented")
        /\ cmp.a.kind = "T" => cmp.ret = "NotImplemented"

C7_Witness ==
    /\ cmp.op = "ge" /\ IsPos(cmp.a) /\ cmp.b = PlainInt(-3)
    /\ cmp.ret = "True"

\* s sorts before t in lexicographic order.
LexLess(s, t) ==
    \E k \in 0..Len(s) :
        /\ k <= Len(t)
        /\ \A j \in 1..k : s[j] = t[j]
        /\ \/ k = Len(s) /\ k < Len(t)
           \/ k < Len(s) /\ k < Len(t) /\ Ord(s[k + 1]) < Ord(t[k + 1])

StrOp(op, s, t) ==
    CASE op = "eq" -> s = t
      [] op = "ne" -> s # t
      [] op = "lt" -> LexLess(s, t)
      [] op = "le" -> LexLess(s, t) \/ s = t
      [] op = "gt" -> LexLess(t, s)
      [] op = "ge" -> LexLess(t, s) \/ s = t

\* C8: two instances x, y of a type that keeps the default cmp_key compare,
\* under each of the six operators, as the strings str(x) and str(y) do in
\* lexicographic order.
C8_DefaultKeyIsStrOrder ==
    (Compared /\ cmp.a.kind = "T" /\ cmp.b.kind = "T") =>
        /\ cmp.res = PyBool(StrOp(cmp.op, Str(cmp.a), Str(cmp.b)))
        /\ cmp.ret = cmp.res

C8_Witness ==
    /\ cmp.op = "lt" /\ cmp.a = TObj(<<"a">>) /\ cmp.b = TObj(<<"a", " ">>)
    /\ cmp.res = "True"

\* The arguments the last outermost call bound; the wrapper of F hands its
\* arguments on to f.
LastBound ==
    getcallargs(IF last.function = "F" THEN "f" ELSE last.function,
                last.args, last.kwargs)

\* C9: the cache key depends only on the values bound to the parameters,
\* not on whether they were passed by position, by keyword or left to the
\* default; and after any sequence of calls the function body has run at
\* most once per owner and binding.
C9_OncePerBinding ==
    /\ \A e \in DOMAIN executed : executed[e] <= 1
    /\ (last.status = "returned" /\ last.function \in {"f", "m"}) =>
          last.key = func_name(last.function) \o <<"_">> \o Str(LastBound.a)
                         \o <<"_">> \o Str(LastBound.b)

\* What the body of the last outermost call returns for its arguments.
LastValue ==
    IF last.function = "outer" THEN <<LastBound.a, DefaultB>>
    ELSE <<LastBound.a, LastBound.b>>

\* C10: every call of a memoized function returns what the function
\* returns for the arguments it bound: calls that bind different arguments
\* do not share a cache entry.
C10_Transparent == last.status = "returned" => last.ret = LastValue

====
